---------------------------- MODULE Spec2Model ----------------------------
(***************************************************************************)
(* A model of run_network.py: the crawl of the seed pages into a directed  *)
(* link graph (networkx DiGraph), PageRank and betweenness centrality of   *)
(* that graph, the assembly and sort of the ranking rows, and the sampling *)
(* of the seed neighbourhood that is drawn.                                *)
(*                                                                         *)
(* Pages (URLs) are numbered: the seeds are 1..Len(SEEDS) and the other    *)
(* pages follow.  The source lists five seeds; the model keeps three,      *)
(* enough for every graph named in the properties below.                   *)
(*                                                                         *)
(* Floating-point PageRank scores are fixed-point integers in units of     *)
(* 1/ONE; betweenness scores are exact rationals <<num, den>>.             *)
(***************************************************************************)
EXTENDS Integers, Sequences, FiniteSets, TLC

VARIABLES pc, i, k, last, G, x, iter, pr, bt, rows, H, exc

vars == <<pc, i, k, last, G, x, iter, pr, bt, rows, H, exc>>

(***************************************************************************)
(* Bounds of the model.                                                    *)
(***************************************************************************)
\* hrefs read on one page (filtered ones included)
MaxLinks == 2
\* edges in the graph
MaxEdges == 4
\* hrefs on the first seed's page in the fan crawl (SpecFan)
MaxFan == 32

(***************************************************************************)
(* Program constants.                                                      *)
(***************************************************************************)
SEEDS == <<1, 2, 3>>
S1 == SEEDS[1]
A == SEEDS[2]
B == SEEDS[3]
\* a page that is no seed
C == Len(SEEDS) + 1
\* list(G.successors(s))[:30]
Cap == 30
\* nx.pagerank defaults: alpha=0.85, max_iter=100, tol=1e-06
AlphaPct == 85
MaxIter == 100
TolInv == 1000000
\* fixed-point unit of a PageRank score
ONE == 10000000

Range(s) == {s[j] : j \in 1..Len(s)}
SeedSet == Range(SEEDS)
Pages == SeedSet \cup {C}
Leaf(j) == Len(SEEDS) + j

(***************************************************************************)
(* The DiGraph: node, succ and pred are insertion-ordered dicts.           *)
(***************************************************************************)
EmptyGraph == [node |-> <<>>, succ |-> <<>>, pred |-> <<>>]

Nodes(g) == Range(g.node)
has_node(g, n) == n \in Nodes(g)
number_of_nodes(g) == Len(g.node)

RECURSIVE SumLen(_, _)
SumLen(f, ns) == IF ns = <<>> THEN 0 ELSE Len(f[Head(ns)]) + SumLen(f, Tail(ns))
number_of_edges(g) == SumLen(g.succ, g.node)

Edges(g) == {e \in Nodes(g) \X Nodes(g) : e[2] \in Range(g.succ[e[1]])}
in_degree(g, n) == Len(g.pred[n])
out_degree(g, n) == Len(g.succ[n])

add_node(g, n) ==
  IF has_node(g, n) THEN g
  ELSE [node |-> Append(g.node, n),
        succ |-> [m \in Nodes(g) \cup {n} |-> IF m = n THEN <<>> ELSE g.succ[m]],
        pred |-> [m \in Nodes(g) \cup {n} |-> IF m = n THEN <<>> ELSE g.pred[m]]]

Put(s, e) == IF e \in Range(s) THEN s ELSE Append(s, e)

add_edge_dup(g, u, v) ==
  LET h == add_node(add_node(g, u), v)
  IN [h EXCEPT !.succ[u] = Append(@, v), !.pred[v] = Append(@, u)]

add_edge_nosource(g, u, v) ==
  LET h == add_node(g, v)
  IN IF has_node(h, u)
     THEN [h EXCEPT !.succ[u] = Put(@, v), !.pred[v] = Put(@, u)]
     ELSE h

add_edge(g, u, v) ==
  LET h == add_node(add_node(g, u), v)
  IN [h EXCEPT !.succ[u] = Put(@, v), !.pred[v] = Put(@, u)]

(***************************************************************************)
(* hrefs: path says whether the href starts with "/wiki/", colon whether   *)
(* it holds a ":", page is the page "/wiki/<page>" names.                  *)
(***************************************************************************)
WikiHref(p) == [path |-> "/wiki/", colon |-> FALSE, page |-> p]
Hrefs == {WikiHref(p) : p \in Pages}
           \cup {[path |-> "/wiki/", colon |-> TRUE, page |-> C],
                 [path |-> "#", colon |-> FALSE, page |-> C]}

startswith_wiki(h) == h.path = "/wiki/"
urljoin(h) == h.page

link_edge_reversed(g, url, target) == add_edge(g, target, url)

link_edge(g, url, target) == add_edge(g, url, target)

Init ==
  /\ pc = "fetch"
  /\ i = 1
  /\ k = 0
  /\ last = "none"
  /\ G = EmptyGraph
  /\ x = <<>>
  /\ iter = 0
  /\ pr = <<>>
  /\ bt = <<>>
  /\ rows = <<>>
  /\ H = EmptyGraph
  /\ exc = "none"

NextSeed ==
  /\ i' = i + 1
  /\ k' = 0
  /\ last' = "none"
  /\ pc' = IF i = Len(SEEDS) THEN "pagerank" ELSE "fetch"

\* requests.get or the parse raises: the except clause prints and the loop goes on
FetchFails ==
  /\ pc = "fetch"
  /\ NextSeed
  /\ UNCHANGED <<G, x, iter, pr, bt, rows, H, exc>>

\* the page has no #mw-content-text: continue
NoContent ==
  /\ pc = "fetch"
  /\ NextSeed
  /\ UNCHANGED <<G, x, iter, pr, bt, rows, H, exc>>

FetchOk ==
  /\ pc = "fetch"
  /\ pc' = "links"
  /\ UNCHANGED <<i, k, last, G, x, iter, pr, bt, rows, H, exc>>

\* one turn of the loop over content.select("a[href]")
ProcessLink(h) ==
  /\ pc = "links"
  /\ k' = k + 1
  /\ IF ~startswith_wiki(h) \/ h.colon
     THEN /\ G' = G
          /\ last' = "skipped"
     ELSE /\ G' = link_edge(G, SEEDS[i], urljoin(h))
          /\ last' = IF <<SEEDS[i], urljoin(h)>> \in Edges(G) THEN "known" ELSE "added"
  /\ UNCHANGED <<pc, i, x, iter, pr, bt, rows, H, exc>>

EndPage ==
  /\ pc = "links"
  /\ NextSeed
  /\ UNCHANGED <<G, x, iter, pr, bt, rows, H, exc>>

Crawl ==
  \/ FetchFails
  \/ NoContent
  \/ FetchOk
  \/ EndPage
  \/ /\ k < MaxLinks
     /\ number_of_edges(G) < MaxEdges
     /\ \E h \in Hrefs : ProcessLink(h)

(***************************************************************************)
(* nx.pagerank(G): the power iteration, one turn of its loop per step.     *)
(***************************************************************************)
RECURSIVE SumOver(_, _)
SumOver(f, ns) == IF ns = <<>> THEN 0 ELSE f[Head(ns)] + SumOver(f, Tail(ns))

Abs(n) == IF n < 0 THEN -n ELSE n

\* sum(x[is_dangling]): the mass on the nodes with no out-edge
dangling_sum(g, xs) ==
  SumOver([n \in Nodes(g) |-> IF out_degree(g, n) = 0 THEN xs[n] ELSE 0], g.node)

\* (x @ A)[v], A the row-normalised adjacency matrix
inflow(g, xs, v) ==
  SumOver([u \in Nodes(g) |-> xs[u] \div out_degree(g, u)], g.pred[v])

teleport(g) == ((100 - AlphaPct) * (ONE \div number_of_nodes(g))) \div 100

power_step_leaky(g, xs) ==
  [v \in Nodes(g) |-> (AlphaPct * inflow(g, xs, v)) \div 100 + teleport(g)]

\* x = alpha * (x @ A + sum(x[is_dangling]) * dangling_weights) + (1 - alpha) * p
power_step(g, xs) ==
  [v \in Nodes(g) |->
     (AlphaPct * (inflow(g, xs, v) + dangling_sum(g, xs) \div number_of_nodes(g))) \div 100
       + teleport(g)]

\* np.absolute(x - xlast).sum()
l1_delta(g, xs, ys) == SumOver([n \in Nodes(g) |-> Abs(xs[n] - ys[n])], g.node)

Total(g, xs) == SumOver(xs, g.node)

PageRankStart ==
  /\ pc = "pagerank"
  /\ IF number_of_nodes(G) = 0
     THEN /\ pr' = <<>>
          /\ pc' = "betweenness"
          /\ UNCHANGED x
     ELSE /\ x' = [n \in Nodes(G) |-> ONE \div number_of_nodes(G)]
          /\ pc' = "power"
          /\ UNCHANGED pr
  /\ iter' = 0
  /\ UNCHANGED <<i, k, last, G, bt, rows, H, exc>>

PowerIteration ==
  /\ pc = "power"
  /\ IF iter = MaxIter
     THEN /\ pc' = "error"
          /\ exc' = "PowerIterationFailedConvergence"
          /\ UNCHANGED <<x, iter, pr>>
     ELSE LET xn == power_step(G, x)
          IN /\ x' = xn
             /\ iter' = iter + 1
             /\ IF l1_delta(G, xn, x) < (number_of_nodes(G) * ONE) \div TolInv
                THEN pc' = "betweenness" /\ pr' = xn
                ELSE pc' = "power" /\ pr' = pr
             /\ UNCHANGED exc
  /\ UNCHANGED <<i, k, last, G, bt, rows, H>>

(***************************************************************************)
(* Exact rationals <<num, den>>, den > 0, in lowest terms.                 *)
(***************************************************************************)
RECURSIVE Gcd(_, _)
Gcd(a, b) == IF b = 0 THEN a ELSE Gcd(b, a % b)

Rat(n, d) == LET g == Gcd(Abs(n), d) IN <<n \div g, d \div g>>
Zero == Rat(0, 1)
RAdd(p, q) == Rat(p[1] * q[2] + q[1] * p[2], p[2] * q[2])
RMul(p, q) == Rat(p[1] * q[1], p[2] * q[2])
RDivInt(p, n) == Rat(p[1], p[2] * n)
RLess(p, q) == p[1] * q[2] < q[1] * p[2]

(***************************************************************************)
(* nx.betweenness_centrality(G): Brandes' algorithm, then the rescaling    *)
(* of the defaults normalized=True, endpoints=False, k=None.               *)
(***************************************************************************)
\* for w in G[v]: the body of the breadth-first search's inner loop
RECURSIVE Relax(_, _, _)
Relax(st, v, ws) ==
  IF ws = <<>> THEN st
  ELSE LET w == Head(ws)
           st1 == IF st.D[w] = -1
                  THEN [st EXCEPT !.Q = Append(@, w), !.D[w] = st.D[v] + 1]
                  ELSE st
           st2 == IF st1.D[w] = st1.D[v] + 1
                  THEN [st1 EXCEPT !.sigma[w] = @ + st1.sigma[v], !.P[w] = Append(@, v)]
                  ELSE st1
       IN Relax(st2, v, Tail(ws))

RECURSIVE BreadthFirst(_, _)
BreadthFirst(g, st) ==
  IF st.Q = <<>> THEN st
  ELSE LET v == Head(st.Q)
       IN BreadthFirst(g, Relax([st EXCEPT !.Q = Tail(@), !.S = Append(@, v)], v, g.succ[v]))

single_source_shortest_path_basic(g, s) ==
  BreadthFirst(g, [S |-> <<>>,
                   P |-> [v \in Nodes(g) |-> <<>>],
                   sigma |-> [v \in Nodes(g) |-> IF v = s THEN 1 ELSE 0],
                   D |-> [v \in Nodes(g) |-> IF v = s THEN 0 ELSE -1],
                   Q |-> <<s>>])

\* for v in P[w]: delta[v] += sigma[v] * coeff
RECURSIVE Credit(_, _, _, _)
Credit(delta, sigma, coeff, ps) ==
  IF ps = <<>> THEN delta
  ELSE Credit([delta EXCEPT ![Head(ps)] = RAdd(@, RMul(Rat(sigma[Head(ps)], 1), coeff))],
              sigma, coeff, Tail(ps))

credits_source(w, s) == TRUE

\* if w != s: betweenness[w] += delta[w]
credits(w, s) == w # s

RECURSIVE Accumulate(_, _, _, _, _)
Accumulate(bc, st, s, delta, n) ==
  IF n = 0 THEN bc
  ELSE LET w == st.S[n]
           coeff == RDivInt(RAdd(Rat(1, 1), delta[w]), st.sigma[w])
           d2 == Credit(delta, st.sigma, coeff, st.P[w])
       IN Accumulate(IF credits(w, s) THEN [bc EXCEPT ![w] = RAdd(@, d2[w])] ELSE bc,
                     st, s, d2, n - 1)

accumulate_basic(bc, st, s) ==
  Accumulate(bc, st, s, [v \in Range(st.S) |-> Zero], Len(st.S))

RECURSIVE FromSources(_, _, _)
FromSources(g, bc, ss) ==
  IF ss = <<>> THEN bc
  ELSE FromSources(g,
                   accumulate_basic(bc, single_source_shortest_path_basic(g, Head(ss)), Head(ss)),
                   Tail(ss))

rescale_none(bc, n) == bc

rescale_undirected(bc, n) ==
  IF n <= 2 THEN bc ELSE [v \in DOMAIN bc |-> RMul(bc[v], Rat(2, (n - 1) * (n - 2)))]

\* _rescale(betweenness, len(G), normalized=True, directed=True)
rescale(bc, n) ==
  IF n <= 2 THEN bc ELSE [v \in DOMAIN bc |-> RDivInt(bc[v], (n - 1) * (n - 2))]

betweenness_centrality(g) ==
  rescale(FromSources(g, [v \in Nodes(g) |-> Zero], g.node), number_of_nodes(g))

Betweenness ==
  /\ pc = "betweenness"
  /\ bt' = betweenness_centrality(G)
  /\ pc' = "rows"
  /\ UNCHANGED <<i, k, last, G, x, iter, pr, rows, H, exc>>

(***************************************************************************)
(* The ranking rows, sorted by (pagerank, betweenness), reverse=True.      *)
(***************************************************************************)
Get(d, key, default) == IF key \in DOMAIN d THEN d[key] ELSE default

Row(g, prs, bts, n) ==
  [url |-> n,
   in_degree |-> in_degree(g, n),
   out_degree |-> out_degree(g, n),
   pagerank |-> Get(prs, n, 0),
   betweenness |-> Get(bts, n, Zero)]

RECURSIVE Assemble(_, _, _, _)
Assemble(g, prs, bts, ns) ==
  IF ns = <<>> THEN <<>>
  ELSE <<Row(g, prs, bts, Head(ns))>> \o Assemble(g, prs, bts, Tail(ns))

\* the key (r[4], r[5]) of r1 is greater than that of r2
KeyGreater(r1, r2) ==
  \/ r1.pagerank > r2.pagerank
  \/ r1.pagerank = r2.pagerank /\ RLess(r2.betweenness, r1.betweenness)

KeyEqual(r1, r2) == ~KeyGreater(r1, r2) /\ ~KeyGreater(r2, r1)

goes_before_unstable(r, s) == ~KeyGreater(s, r)

goes_before_ascending(r, s) == KeyGreater(s, r)

\* in a stable descending sort a later row passes only rows of a smaller key
goes_before(r, s) == KeyGreater(r, s)

RECURSIVE InsertRow(_, _)
InsertRow(sorted, r) ==
  IF sorted = <<>> THEN <<r>>
  ELSE IF goes_before(r, Head(sorted)) THEN <<r>> \o sorted
  ELSE <<Head(sorted)>> \o InsertRow(Tail(sorted), r)

RECURSIVE SortRows(_, _)
SortRows(sorted, rs) ==
  IF rs = <<>> THEN sorted ELSE SortRows(InsertRow(sorted, Head(rs)), Tail(rs))

Rows ==
  /\ pc = "rows"
  /\ rows' = SortRows(<<>>, Assemble(G, pr, bt, G.node))
  /\ pc' = "sample"
  /\ UNCHANGED <<i, k, last, G, x, iter, pr, bt, H, exc>>

(***************************************************************************)
(* The drawn neighbourhood: the seeds and the first Cap successors of each.*)
(***************************************************************************)
Min(a, b) == IF a < b THEN a ELSE b

first_successors_uncapped(g, s) == g.succ[s]

\* list(G.successors(s))[:30]
first_successors(g, s) == SubSeq(g.succ[s], 1, Min(Cap, Len(g.succ[s])))

Keep(g) == SeedSet \cup UNION {Range(first_successors(g, s)) : s \in SeedSet}

\* G.subgraph(keep).copy()
subgraph(g, keep) ==
  LET Kept(n) == n \in keep
      ns == SelectSeq(g.node, Kept)
  IN [node |-> ns,
      succ |-> [n \in Range(ns) |-> SelectSeq(g.succ[n], Kept)],
      pred |-> [n \in Range(ns) |-> SelectSeq(g.pred[n], Kept)]]

Sample ==
  /\ pc = "sample"
  /\ IF \E s \in SeedSet : ~has_node(G, s)
     THEN /\ pc' = "error"
          /\ exc' = "NetworkXError"
          /\ UNCHANGED H
     ELSE /\ H' = subgraph(G, Keep(G))
          /\ pc' = "done"
          /\ UNCHANGED exc
  /\ UNCHANGED <<i, k, last, G, x, iter, pr, bt, rows>>

Rank == PageRankStart \/ PowerIteration \/ Betweenness \/ Rows \/ Sample

Next == Crawl \/ Rank

Spec == Init /\ [][Next]_vars

(***************************************************************************)
(* The fan crawl: the first seed's page lists the pages after the seeds in *)
(* order, each other seed's page links to at most one seed.                *)
(***************************************************************************)
FanLink ==
  \/ /\ i = 1
     /\ k < MaxFan
     /\ ProcessLink(WikiHref(Leaf(k + 1)))
  \/ /\ i > 1
     /\ k < 1
     /\ \E p \in SeedSet : ProcessLink(WikiHref(p))

NextFan == FetchFails \/ FetchOk \/ EndPage \/ FanLink \/ Rank

SpecFan == Init /\ [][NextFan]_vars

(***************************************************************************)
(* Properties.                                                             *)
(***************************************************************************)
\* the centralities of G have been computed
Scored == pc \in {"rows", "sample", "done"} \/ (pc = "error" /\ exc = "NetworkXError")
\* the rows have been assembled and sorted
Ranked == pc \in {"sample", "done"} \/ (pc = "error" /\ exc = "NetworkXError")

Urls(rs) == [j \in 1..Len(rs) |-> rs[j].url]
IndexOf(s, e) == CHOOSE j \in 1..Len(s) : s[j] = e
Dangling(g) == {n \in Nodes(g) : out_degree(g, n) = 0}
SelfLoops(g) == {n \in Nodes(g) : <<n, n>> \in Edges(g)}

\* the crawl loop, the only writer of G, is running or has just ended: G
\* takes every value it ever has in these states
Crawling == pc \in {"fetch", "links", "pagerank"}

\* C1: adding an edge a second time changes nothing: for every graph the
\* crawl builds and every pair (a, b), a = b included, the graph after two
\* calls of add_edge(a, b) (its nodes, its successor and predecessor lists,
\* hence every degree) is the graph after one call, which holds the edge.
C1_AddEdgeIdempotent ==
  Crawling =>
    \A a \in Pages, b \in Pages :
      LET g1 == add_edge(G, a, b)
      IN /\ <<a, b>> \in Edges(g1)
         /\ add_edge(g1, a, b) = g1

\* the crawl has just met a link whose edge the graph already held, in a
\* graph with a self-loop
C1_Witness == last = "known" /\ SelfLoops(G) # {} /\ number_of_edges(G) >= 2

\* C2: whatever the fetches yield, the run ends without an error.
C2_RunCompletes == pc # "error"

(***************************************************************************)
(* Betweenness by its definition: the sum over the ordered pairs (s, t) of *)
(* other nodes, t reachable from s, of the share of the shortest s-t paths *)
(* that pass through v.                                                    *)
(***************************************************************************)
RECURSIVE Within(_, _, _)
Within(g, s, d) ==
  IF d = 0 THEN {s}
  ELSE LET W == Within(g, s, d - 1) IN W \cup UNION {Range(g.succ[u]) : u \in W}

Dist(g, s, t) ==
  IF t \notin Within(g, s, number_of_nodes(g)) THEN -1
  ELSE CHOOSE d \in 0..number_of_nodes(g) :
         t \in Within(g, s, d) /\ (d = 0 \/ t \notin Within(g, s, d - 1))

RECURSIVE Walks(_, _, _, _)
Walks(g, s, t, d) ==
  IF d = 0 THEN (IF s = t THEN 1 ELSE 0)
  ELSE SumOver([u \in Nodes(g) |-> Walks(g, u, t, d - 1)], g.succ[s])

ShortestPaths(g, s, t) == Walks(g, s, t, Dist(g, s, t))

PathsThrough(g, s, t, v) ==
  IF /\ Dist(g, s, v) >= 0
     /\ Dist(g, v, t) >= 0
     /\ Dist(g, s, v) + Dist(g, v, t) = Dist(g, s, t)
  THEN ShortestPaths(g, s, v) * ShortestPaths(g, v, t)
  ELSE 0

RECURSIVE RSum(_, _)
RSum(f, S) ==
  IF S = {} THEN Zero ELSE LET e == CHOOSE e \in S : TRUE IN RAdd(f[e], RSum(f, S \ {e}))

BetweennessDef(g, v) ==
  LET Others == Nodes(g) \ {v}
      Pairs == {p \in Others \X Others : p[1] # p[2] /\ Dist(g, p[1], p[2]) >= 0}
  IN RSum([p \in Pairs |-> Rat(PathsThrough(g, p[1], p[2], v),
                                ShortestPaths(g, p[1], p[2]))], Pairs)

IsPath(g, a, b, c) ==
  /\ a # b /\ b # c /\ a # c
  /\ Edges(g) = {<<a, b>>, <<b, c>>}

\* C3, as stated: the score of every node is the unnormalized sum of
\* shortest-path shares, so that B scores exactly 1 on the path A->B->C.
C3_Unnormalized ==
  Scored => /\ \A v \in Nodes(G) : bt[v] = BetweennessDef(G, v)
            /\ \A a \in Pages, b \in Pages, c \in Pages :
                 IsPath(G, a, b, c) => bt[b] = Rat(1, 1)

\* C3, amended: the score of every node is the sum of shortest-path shares
\* divided by (N-1)(N-2) when the graph has N > 2 nodes (left as it is when
\* N <= 2), so that B scores 1/2 on the path A->B->C.
C3_Normalized ==
  Scored => /\ \A v \in Nodes(G) :
                 bt[v] = IF number_of_nodes(G) <= 2 THEN BetweennessDef(G, v)
                         ELSE RDivInt(BetweennessDef(G, v),
                                      (number_of_nodes(G) - 1) * (number_of_nodes(G) - 2))
            /\ \A a \in Pages, b \in Pages, c \in Pages :
                 IsPath(G, a, b, c) => bt[b] = Rat(1, 2)

\* the scores of a four-node graph with a node of positive betweenness
C3_Witness ==
  /\ Scored
  /\ number_of_nodes(G) = 4
  /\ \E v \in Nodes(G) : RLess(Zero, BetweennessDef(G, v))

IsC4Graph ==
  /\ G.node = <<S1, A, B>>
  /\ G.succ = (S1 :> <<A, B>> @@ A :> <<B>> @@ B :> <<A>>)

\* C4, as stated: on the edges (S1,A), (S1,B), (A,B), (B,A), added in that
\* order, PageRank(B) > PageRank(S1) and the ranking is B, A, S1.
C4_RanksBFirst ==
  (Ranked /\ IsC4Graph) => /\ pr[B] > pr[S1]
                           /\ Urls(rows) = <<B, A, S1>>

\* C4, amended: on that graph PageRank(B) > PageRank(S1), A and B have the
\* same PageRank and the same betweenness, and the ranking is A, B, S1: the
\* tie leaves A, the node inserted first, above B.
C4_RanksAFirst ==
  (Ranked /\ IsC4Graph) => /\ pr[B] > pr[S1]
                           /\ pr[A] = pr[B]
                           /\ bt[A] = bt[B]
                           /\ Urls(rows) = <<A, B, S1>>

C4_Witness == pc = "done" /\ IsC4Graph /\ Len(rows) = 3

MassOk(g, xs) ==
  /\ \A n \in Nodes(g) : xs[n] >= 0
  /\ Abs(Total(g, xs) - ONE) <= (number_of_nodes(g) * ONE) \div 10000

\* C5: after every turn of the power iteration, and in the scores returned,
\* every score is non-negative and the scores sum to 1.0 within 1e-4 * N.
C5_MassConserved ==
  /\ (pc = "power" => MassOk(G, x))
  /\ (Scored => (number_of_nodes(G) >= 1 => MassOk(G, pr)))

\* a later turn of the iteration on a graph with a self-loop where at least
\* half of the nodes dangle
C5_Witness ==
  /\ pc = "power"
  /\ iter >= 2
  /\ SelfLoops(G) # {}
  /\ Cardinality(Dangling(G)) >= 2
  /\ 2 * Cardinality(Dangling(G)) >= number_of_nodes(G)

\* C6: one row per node, by non-increasing pagerank, equal pageranks by
\* non-increasing betweenness, rows equal on both in the order of G.nodes().
C6_RowsSorted ==
  Ranked =>
    /\ Len(rows) = number_of_nodes(G)
    /\ Range(Urls(rows)) = Nodes(G)
    /\ \A p \in 1..Len(rows) : rows[p] = Row(G, pr, bt, rows[p].url)
    /\ \A p \in 1..Len(rows), q \in 1..Len(rows) :
         p < q =>
           /\ rows[p].pagerank >= rows[q].pagerank
           /\ rows[p].pagerank = rows[q].pagerank
                => ~RLess(rows[p].betweenness, rows[q].betweenness)
           /\ KeyEqual(rows[p], rows[q])
                => IndexOf(G.node, rows[p].url) < IndexOf(G.node, rows[q].url)

\* rows where a tie on pagerank is broken by betweenness, a tie on both keys
\* is left in insertion order, and the sort moved a row
C6_Witness ==
  /\ Ranked
  /\ Urls(rows) # G.node
  /\ \E p \in 1..Len(rows), q \in 1..Len(rows) :
       p < q /\ KeyEqual(rows[p], rows[q])
  /\ \E p \in 1..Len(rows), q \in 1..Len(rows) :
       /\ p < q
       /\ rows[p].pagerank = rows[q].pagerank
       /\ RLess(rows[q].betweenness, rows[p].betweenness)

C8_NodesAreEndpoints ==
  /\ DOMAIN G.succ = Nodes(G)
  /\ DOMAIN G.pred = Nodes(G)
  /\ \A n \in Nodes(G) : Range(G.succ[n]) \cup Range(G.pred[n]) \subseteq Nodes(G)
  /\ \A n \in Nodes(G) : G.succ[n] # <<>> \/ G.pred[n] # <<>>
  /\ \A n \in Nodes(G), m \in Nodes(G) : (m \in Range(G.succ[n])) = (n \in Range(G.pred[m]))

C8_Witness ==
  /\ pc = "links"
  /\ last = "added"
  /\ number_of_nodes(G) = 4
  /\ SelfLoops(G) # {}

\* C9: on a path a->b->c the betweenness of b is positive, that of a and c 0.
C9_PathBetweenness ==
  Scored =>
    \A a \in Pages, b \in Pages, c \in Pages :
      IsPath(G, a, b, c) =>
        /\ RLess(Zero, bt[b])
        /\ bt[a] = Zero
        /\ bt[c] = Zero

C9_Witness == pc = "rows" /\ IsPath(G, A, B, C)

\* C10: the source of every edge is a seed: a node that is no seed has no
\* out-edge and, once the scores are computed, betweenness 0.
C10_SourcesAreSeeds ==
  /\ \A e \in Edges(G) : e[1] \in SeedSet
  /\ \A n \in Nodes(G) \ SeedSet : out_degree(G, n) = 0
  /\ Scored => \A n \in Nodes(G) : RLess(Zero, bt[n]) => n \in SeedSet

\* scores with a seed of positive betweenness beside a page that is no seed
C10_Witness ==
  /\ Scored
  /\ C \in Nodes(G)
  /\ \E n \in SeedSet \cap Nodes(G) : RLess(Zero, bt[n])
=============================================================================
